---- MODULE Spec2Model ----
(***************************************************************************)
(* Model of generate_docx.py: the SmartEmail document composer.             *)
(*                                                                          *)
(* One invocation of the script is a process p that walks the module body   *)
(* statement by statement; pc[p] holds the source line about to execute.    *)
(* Invocations share nothing but the file system fs.  Strings are           *)
(* sequences of one-character strings, so that strip, the `in` test and     *)
(* split are computed character by character as Python computes them.       *)
(***************************************************************************)
EXTENDS Integers, Sequences, FiniteSets, TLC

VARIABLES
    fs,         \* file system: path -> [exists, data]
    argv,       \* per invocation: [input_txt, logo_path]  (sys.argv[1], sys.argv[2])
    pc,         \* per invocation: source line about to run, or "off"/"done"/"error"
    doc,        \* per invocation: the in-memory Document, a sequence of blocks
    text,       \* per invocation: the variable text (line 26)
    original,   \* per invocation: the variable original (line 30)
    enhanced,   \* per invocation: the variable enhanced (line 30)
    err,        \* per invocation: the uncaught exception that ended it, "" if none
    writeLog    \* the writes performed on the file system, in order: <<[by, path]>>

vars == <<fs, argv, pc, doc, text, original, enhanced, err, writeLog>>

(***************************************************************************)
(* Bounds of the model                                                      *)
(***************************************************************************)
\* input files hold at most this many tokens (a token is one character,
\* a whole marker, or the marker's tail "ENHANCED===")
MaxTokens == 4

Procs == {1, 2}

(***************************************************************************)
(* Strings                                                                  *)
(***************************************************************************)
Marker == <<"=", "=", "=", "E", "N", "H", "A", "N", "C", "E", "D", "=", "=", "=">>

\* "ENHANCED===": appended to a marker it makes a second, overlapping occurrence
MarkerTail == SubSeq(Marker, 4, Len(Marker))

Whitespace == {" ", "\t", "\n", "\r"}

RECURSIVE LStrip(_)
LStrip(s) ==
    IF s = <<>> \/ Head(s) \notin Whitespace THEN s ELSE LStrip(Tail(s))

RECURSIVE RStrip(_)
RStrip(s) ==
    IF s = <<>> \/ s[Len(s)] \notin Whitespace THEN s
    ELSE RStrip(SubSeq(s, 1, Len(s) - 1))

\* a plausible slip: only the leading whitespace is removed
StripLeftOnly(s) == LStrip(s)

\* str.strip()
Strip(s) == RStrip(LStrip(s))

\* str.find(m) + 1: the index of the leftmost occurrence of m in s, 0 if none
Find(s, m) ==
    LET hits == {i \in 1..(Len(s) - Len(m) + 1) : SubSeq(s, i, i + Len(m) - 1) = m}
    IN  IF hits = {} THEN 0 ELSE CHOOSE i \in hits : \A j \in hits : i <= j

\* m in s
Contains(s, m) == Find(s, m) # 0

\* s.split(m): cut at every occurrence, scanning left to right without overlap
RECURSIVE Split(_, _)
Split(s, m) ==
    LET i == Find(s, m)
    IN  IF i = 0 THEN <<s>>
        ELSE <<SubSeq(s, 1, i - 1)>> \o Split(SubSeq(s, i + Len(m), Len(s)), m)

(***************************************************************************)
(* Input files                                                              *)
(***************************************************************************)
Tokens == {" ", "a", "M", "T"}

TokenChars(t) ==
    CASE t = "M" -> Marker
      [] t = "T" -> MarkerTail
      [] OTHER   -> <<t>>

RECURSIVE Expand(_)
Expand(ts) == IF ts = <<>> THEN <<>> ELSE TokenChars(Head(ts)) \o Expand(Tail(ts))

TokenSeqs == UNION {[1..n -> Tokens] : n \in 0..MaxTokens}

Texts == {Expand(ts) : ts \in TokenSeqs}

\* the inputs of the two racing invocations
RaceTexts ==
    {Expand(ts) : ts \in {<<"a">>, <<" ", "a", "M", "a">>, <<"M", "a", "M">>}}

(***************************************************************************)
(* File system                                                              *)
(***************************************************************************)
output_docx == "/tmp/SmartEmail_Output.docx"

InputPath(p) == IF p = 1 THEN "input1.txt" ELSE "input2.txt"

LogoPath == "logo.png"

Paths == {InputPath(p) : p \in Procs} \cup {LogoPath, output_docx}

NoFile == [exists |-> FALSE, data |-> <<>>]

File(d) == [exists |-> TRUE, data |-> d]

\* a logo the imaging code can read, and one it cannot
GoodImage == File(<<"image">>)

BadImage == File(<<"garbage">>)

\* a plausible slip: the existence test is dropped
PathExistsAlways(f, path) == TRUE

\* os.path.exists(path)
PathExists(f, path) == f[path].exists

\* a plausible slip: a missing input reads as the empty string
CanOpenAlways(f, path) == TRUE

\* open(path, "r") succeeds
CanOpen(f, path) == f[path].exists

\* add_picture can decode the file
IsImage(f, path) == f[path] = GoodImage

\* a plausible slip: an existing file is left alone
SavedFsIfAbsent(f, path, d) ==
    IF f[path].exists THEN f ELSE [f EXCEPT ![path] = File(d)]

\* doc.save(path): the file at path is created or replaced
SavedFs(f, path, d) == [f EXCEPT ![path] = File(d)]

(***************************************************************************)
(* Document blocks                                                          *)
(***************************************************************************)
LogoWidthInches == 2

TitlePt == 16

HeadingLevel == 2

Block(k, t, b, sz, lv, w) ==
    [kind |-> k, text |-> t, bold |-> b, size |-> sz, level |-> lv, width |-> w]

\* doc.add_picture(logo_path, width=Inches(2))
Picture == Block("image", <<>>, FALSE, 0, 0, LogoWidthInches)

\* doc.add_paragraph(t)
Paragraph(t) == Block("paragraph", t, FALSE, 0, 0, 0)

\* a plausible slip: the run formatting is left out
PlainTitle == Paragraph(<<"SmartEmail Response">>)

\* the paragraph "SmartEmail Response" with runs[0] bold, 16pt
Title == Block("paragraph", <<"SmartEmail Response">>, TRUE, TitlePt, 0, 0)

\* doc.add_heading(t, level=2)
Heading(t) == Block("heading", t, FALSE, 0, HeadingLevel, 0)

\* a plausible slip: the block goes to the front of the body
Prepend(d, b) == <<b>> \o d

\* every add_* call puts its block at the end of the document body
AddBlock(d, b) == Append(d, b)

(***************************************************************************)
(* The module body, one action per statement                                *)
(***************************************************************************)
Goto(p, l) == pc' = [pc EXCEPT ![p] = l]

\* a plausible slip: the document built so far is saved on the way out
RaiseAndSave(p, e) ==
    /\ Goto(p, "error")
    /\ err' = [err EXCEPT ![p] = e]
    /\ fs' = SavedFs(fs, output_docx, doc[p])
    /\ writeLog' = Append(writeLog, [by |-> p, path |-> output_docx])
    /\ UNCHANGED <<argv, doc, text, original, enhanced>>

\* an exception nothing catches ends the process where it stands
Raise(p, e) ==
    /\ Goto(p, "error")
    /\ err' = [err EXCEPT ![p] = e]
    /\ UNCHANGED <<fs, argv, doc, text, original, enhanced, writeLog>>

\* a plausible slip: one document object shared by every invocation
AddShared(p, b, l) ==
    /\ doc' = [q \in Procs |-> AddBlock(doc[q], b)]
    /\ Goto(p, l)
    /\ UNCHANGED <<fs, argv, text, original, enhanced, err, writeLog>>

\* doc.add_*(...): one block more in the document of p, then the next line
Add(p, b, l) ==
    /\ doc' = [doc EXCEPT ![p] = AddBlock(doc[p], b)]
    /\ Goto(p, l)
    /\ UNCHANGED <<fs, argv, text, original, enhanced, err, writeLog>>

\* line 11: doc = Document()
NewDocument(p) ==
    /\ pc[p] = "L11"
    /\ doc' = [doc EXCEPT ![p] = <<>>]
    /\ Goto(p, "L14")
    /\ UNCHANGED <<fs, argv, text, original, enhanced, err, writeLog>>

\* line 14: if os.path.exists(logo_path)
LogoCheck(p) ==
    /\ pc[p] = "L14"
    /\ Goto(p, IF PathExists(fs, argv[p].logo_path) THEN "L15" ELSE "L19")
    /\ UNCHANGED <<fs, argv, doc, text, original, enhanced, err, writeLog>>

\* line 15: doc.add_picture(logo_path, width=Inches(2))
AddPicture(p) ==
    /\ pc[p] = "L15"
    /\ IF IsImage(fs, argv[p].logo_path)
       THEN Add(p, Picture, "L16")
       ELSE Raise(p, "ImageError")

\* line 16: doc.add_paragraph("")
LogoSpacer(p) == pc[p] = "L16" /\ Add(p, Paragraph(<<>>), "L19")

\* lines 19-21: the title paragraph, bold, 16pt
AddTitle(p) == pc[p] = "L19" /\ Add(p, Title, "L22")

\* line 22: doc.add_paragraph("")
TitleSpacer(p) == pc[p] = "L22" /\ Add(p, Paragraph(<<>>), "L25")

\* lines 25-26: text = open(input_txt).read().strip()
ReadText(p) ==
    /\ pc[p] = "L25"
    /\ IF CanOpen(fs, argv[p].input_txt)
       THEN /\ text' = [text EXCEPT ![p] = Strip(fs[argv[p].input_txt].data)]
            /\ Goto(p, "L29")
            /\ UNCHANGED <<fs, argv, doc, original, enhanced, err, writeLog>>
       ELSE Raise(p, "FileNotFoundError")

\* line 29: if "===ENHANCED===" in text
MarkerTest(p) ==
    /\ pc[p] = "L29"
    /\ Goto(p, IF Contains(text[p], Marker) THEN "L30" ELSE "L37")
    /\ UNCHANGED <<fs, argv, doc, text, original, enhanced, err, writeLog>>

\* line 30: original, enhanced = text.split("===ENHANCED===")
SplitText(p) ==
    /\ pc[p] = "L30"
    /\ LET parts == Split(text[p], Marker)
       IN  IF Len(parts) = 2
           THEN /\ original' = [original EXCEPT ![p] = parts[1]]
                /\ enhanced' = [enhanced EXCEPT ![p] = parts[2]]
                /\ Goto(p, "L31")
                /\ UNCHANGED <<fs, argv, doc, text, err, writeLog>>
           ELSE Raise(p, "ValueError")

\* line 31: doc.add_heading("Original Message:", level=2)
OriginalHeading(p) ==
    pc[p] = "L31" /\ Add(p, Heading(<<"Original Message:">>), "L32")

\* line 32: doc.add_paragraph(original.strip())
OriginalParagraph(p) ==
    pc[p] = "L32" /\ Add(p, Paragraph(Strip(original[p])), "L33")

\* line 33: doc.add_paragraph("")
SectionSpacer(p) == pc[p] = "L33" /\ Add(p, Paragraph(<<>>), "L34")

\* line 34: doc.add_heading("Enhanced Version:", level=2)
EnhancedHeading(p) ==
    pc[p] = "L34" /\ Add(p, Heading(<<"Enhanced Version:">>), "L35")

\* line 35: doc.add_paragraph(enhanced.strip())
EnhancedParagraph(p) ==
    pc[p] = "L35" /\ Add(p, Paragraph(Strip(enhanced[p])), "L39")

\* line 37: doc.add_paragraph(text)
WholeParagraph(p) == pc[p] = "L37" /\ Add(p, Paragraph(text[p]), "L39")

\* line 39: doc.save(output_docx)
Save(p) ==
    /\ pc[p] = "L39"
    /\ fs' = SavedFs(fs, output_docx, doc[p])
    /\ writeLog' = Append(writeLog, [by |-> p, path |-> output_docx])
    /\ Goto(p, "done")
    /\ UNCHANGED <<argv, doc, text, original, enhanced, err>>

Step(p) ==
    \/ NewDocument(p)
    \/ LogoCheck(p)
    \/ AddPicture(p)
    \/ LogoSpacer(p)
    \/ AddTitle(p)
    \/ TitleSpacer(p)
    \/ ReadText(p)
    \/ MarkerTest(p)
    \/ SplitText(p)
    \/ OriginalHeading(p)
    \/ OriginalParagraph(p)
    \/ SectionSpacer(p)
    \/ EnhancedHeading(p)
    \/ EnhancedParagraph(p)
    \/ WholeParagraph(p)
    \/ Save(p)

Next == \E p \in Procs : Step(p)

(***************************************************************************)
(* Initial states                                                           *)
(***************************************************************************)
\* what an earlier run left at the output path
OldDoc == <<Paragraph(<<"earlier run">>)>>

Args(p) == [input_txt |-> InputPath(p), logo_path |-> LogoPath]

Fresh ==
    /\ argv = [p \in Procs |-> Args(p)]
    /\ doc = [p \in Procs |-> <<>>]
    /\ text = [p \in Procs |-> <<>>]
    /\ original = [p \in Procs |-> <<>>]
    /\ enhanced = [p \in Procs |-> <<>>]
    /\ err = [p \in Procs |-> ""]
    /\ writeLog = <<>>

\* one invocation, any input file, any logo, any earlier output
Init ==
    /\ Fresh
    /\ pc = [p \in Procs |-> IF p = 1 THEN "L11" ELSE "off"]
    /\ \E in \in {NoFile} \cup {File(t) : t \in Texts},
          logo \in {NoFile, GoodImage, BadImage},
          out \in {NoFile, File(OldDoc)} :
          fs = [path \in Paths |->
                  CASE path = InputPath(1) -> in
                    [] path = LogoPath     -> logo
                    [] path = output_docx  -> out
                    [] OTHER               -> NoFile]

\* two invocations started together on the same output path
InitRace ==
    /\ Fresh
    /\ pc = [p \in Procs |-> "L11"]
    /\ \E in1 \in {NoFile} \cup {File(t) : t \in RaceTexts},
          in2 \in {NoFile} \cup {File(t) : t \in RaceTexts},
          logo \in {NoFile, GoodImage, BadImage} :
          fs = [path \in Paths |->
                  CASE path = InputPath(1) -> in1
                    [] path = InputPath(2) -> in2
                    [] path = LogoPath     -> logo
                    [] OTHER               -> File(OldDoc)]

Spec == Init /\ [][Next]_vars

SpecRace == InitRace /\ [][Next]_vars

(***************************************************************************)
(* Vocabulary of the properties                                             *)
(***************************************************************************)
Terminated(p) == pc[p] \in {"done", "error"}

Input(p) == fs[argv[p].input_txt]

Logo(p) == fs[argv[p].logo_path]

Saved == fs["/tmp/SmartEmail_Output.docx"]

\* the positions at which the marker occurs in s
Occurrences(s) ==
    {i \in 1..(Len(s) - Len(Marker) + 1) : SubSeq(s, i, i + Len(Marker) - 1) = Marker}

FirstOccurrence(s) == CHOOSE i \in Occurrences(s) : \A j \in Occurrences(s) : i <= j

BeforeFirst(s) == SubSeq(s, 1, FirstOccurrence(s) - 1)

AfterFirst(s) == SubSeq(s, FirstOccurrence(s) + Len(Marker), Len(s))

\* t is s with its leading and trailing whitespace removed
IsTrimOf(t, s) ==
    /\ t # <<>> => t[1] \notin Whitespace /\ t[Len(t)] \notin Whitespace
    /\ \E i \in 0..(Len(s) - Len(t)) :
          /\ SubSeq(s, i + 1, i + Len(t)) = t
          /\ \A k \in 1..i : s[k] \in Whitespace
          /\ \A k \in (i + Len(t) + 1)..Len(s) : s[k] \in Whitespace

Spaces(n) == [k \in 1..n |-> " "]

Blank == [kind |-> "paragraph", text |-> <<>>, bold |-> FALSE, size |-> 0,
          level |-> 0, width |-> 0]

IsTitle(b) ==
    /\ b.kind = "paragraph"
    /\ b.text = <<"SmartEmail Response">>
    /\ b.bold
    /\ b.size = 16

IsHeading(b, label) == b.kind = "heading" /\ b.text = <<label>>

IsTextParagraph(b) == b.kind = "paragraph" /\ ~b.bold /\ b.size = 0

TitleAt(d) == {i \in 1..Len(d) : IsTitle(d[i])}

\* the blocks that follow the title and its spacer: those that carry input text
TextBlocks(d) ==
    LET k == CHOOSE i \in TitleAt(d) : TRUE
    IN  SubSeq(d, k + 2, Len(d))

\* the run of p wrote the output file
SavesBy(p) == {i \in 1..Len(writeLog) : writeLog[i].by = p}

\* the two labelled sections, in order
TwoSections(tb) ==
    /\ Len(tb) = 5
    /\ IsHeading(tb[1], "Original Message:")
    /\ IsTextParagraph(tb[2])
    /\ tb[3] = Blank
    /\ IsHeading(tb[4], "Enhanced Version:")
    /\ IsTextParagraph(tb[5])

(***************************************************************************)
(* C1: for every input text in which the marker occurs two or more times,   *)
(* the run completes normally and the document is split at the first        *)
(* occurrence only: the "Original Message:" paragraph is the trimmed text   *)
(* before the first marker and the "Enhanced Version:" paragraph is the     *)
(* trimmed text after it, later markers included.                           *)
(***************************************************************************)
C1_SplitAtFirstMarkerOnly ==
    \A p \in Procs :
        ( /\ Terminated(p)
          /\ Input(p).exists
          /\ Logo(p) # BadImage
          /\ Cardinality(Occurrences(Input(p).data)) >= 2 )
        => /\ pc[p] = "done"
           /\ LET tb == TextBlocks(doc[p])
              IN  /\ TwoSections(tb)
                  /\ IsTrimOf(tb[2].text, BeforeFirst(Input(p).data))
                  /\ IsTrimOf(tb[5].text, AfterFirst(Input(p).data))

(***************************************************************************)
(* C2: for every input text without the marker, the saved document holds    *)
(* exactly one paragraph carrying input text, its text is the file's        *)
(* contents with leading and trailing whitespace removed, and there is no   *)
(* "Original Message:" or "Enhanced Version:" heading.                      *)
(***************************************************************************)
C2_NoMarkerSingleParagraph ==
    \A p \in Procs :
        ( /\ Terminated(p)
          /\ Input(p).exists
          /\ Logo(p) # BadImage
          /\ Occurrences(Input(p).data) = {} )
        => /\ pc[p] = "done"
           /\ Saved.exists
           /\ LET d  == Saved.data
                  tb == TextBlocks(d)
              IN  /\ Len(tb) = 1
                  /\ IsTextParagraph(tb[1])
                  /\ IsTrimOf(tb[1].text, Input(p).data)
                  /\ \A i \in 1..Len(d) : d[i].kind # "heading"

C2_Witness ==
    /\ pc[1] = "done"
    /\ Occurrences(Input(1).data) = {}
    /\ Len(doc[1]) > 0
    /\ LET t == doc[1][Len(doc[1])].text
       IN  /\ t # <<>>
           /\ Input(1).data = <<" ">> \o t \o <<" ">>

(***************************************************************************)
(* C3: for every input text containing the marker, the saved document       *)
(* holds, in this order, the heading "Original Message:", a paragraph P1,   *)
(* the heading "Enhanced Version:" and a paragraph P2, where P1 and P2 are  *)
(* trimmed and P1 + marker + P2 is the trimmed input up to the whitespace   *)
(* removed around the marker.                                               *)
(***************************************************************************)
C3_TwoSectionsReconstructInput ==
    \A p \in Procs :
        ( /\ Terminated(p)
          /\ Input(p).exists
          /\ Logo(p) # BadImage
          /\ Occurrences(Input(p).data) # {} )
        => /\ pc[p] = "done"
           /\ Saved.exists
           /\ LET tb == TextBlocks(Saved.data)
              IN  /\ TwoSections(tb)
                  /\ IsTrimOf(tb[2].text, tb[2].text)
                  /\ IsTrimOf(tb[5].text, tb[5].text)
                  /\ \E n1, n2 \in 0..Len(Input(p).data) :
                        IsTrimOf(tb[2].text \o Spaces(n1) \o Marker
                                   \o Spaces(n2) \o tb[5].text,
                                 Input(p).data)

\* what C3 says, for the texts in which the marker occurs exactly once
C3_HoldsForOneMarker ==
    \A p \in Procs :
        ( /\ Terminated(p)
          /\ Input(p).exists
          /\ Logo(p) # BadImage
          /\ Len(Split(Input(p).data, Marker)) = 2 )
        => /\ pc[p] = "done"
           /\ Saved.exists
           /\ LET tb == TextBlocks(Saved.data)
              IN  /\ TwoSections(tb)
                  /\ IsTrimOf(tb[2].text, tb[2].text)
                  /\ IsTrimOf(tb[5].text, tb[5].text)
                  /\ \E n1, n2 \in 0..Len(Input(p).data) :
                        IsTrimOf(tb[2].text \o Spaces(n1) \o Marker
                                   \o Spaces(n2) \o tb[5].text,
                                 Input(p).data)

(***************************************************************************)
(* C4: in every completed run the document holds no image block when the    *)
(* logo path does not exist and exactly one when it does; the image block   *)
(* is 2 inches wide and is immediately followed by a blank paragraph; a     *)
(* missing logo never causes an error.                                      *)
(***************************************************************************)
C4_LogoBlock ==
    \A p \in Procs :
        /\ pc[p] = "done" =>
              LET d    == doc[p]
                  imgs == {i \in 1..Len(d) : d[i].kind = "image"}
              IN  /\ Cardinality(imgs) = IF Logo(p).exists THEN 1 ELSE 0
                  /\ \A i \in imgs : /\ d[i].width = 2
                                     /\ i < Len(d)
                                     /\ d[i + 1] = Blank
        /\ ~Logo(p).exists => /\ err[p] # "ImageError"
                              /\ pc[p] \notin {"L15", "L16"}

C4_Witness ==
    /\ pc[1] = "done"
    /\ Logo(1).exists
    /\ doc[1][1].kind = "image"
    /\ doc[1][2] = Blank

(***************************************************************************)
(* C5 as stated: in every completed run the bold 16pt title paragraph is    *)
(* the first block of the document, before every other block, the logo     *)
(* image included.                                                          *)
(***************************************************************************)
C5_TitleIsFirstBlock ==
    \A p \in Procs : pc[p] = "done" => IsTitle(doc[p][1])

(***************************************************************************)
(* C5 amended: in every completed run the bold 16pt title paragraph occurs  *)
(* exactly once and precedes every heading and every paragraph of input     *)
(* text, marker or no marker; it is the first block when the logo does not  *)
(* exist, and when the logo exists it comes right after the logo image      *)
(* block and its blank paragraph.                                           *)
(***************************************************************************)
C5_TitleAfterLogoBeforeText ==
    \A p \in Procs :
        pc[p] = "done" =>
            LET d == doc[p]
            IN  /\ Cardinality(TitleAt(d)) = 1
                /\ \A k \in TitleAt(d) :
                      /\ k = IF Logo(p).exists THEN 3 ELSE 1
                      /\ \A i \in 1..(k - 1) : d[i].kind = "image" \/ d[i] = Blank
                      /\ \A i \in 1..Len(d) :
                            (d[i].kind = "heading" \/ d[i].text # <<>>) => i >= k
                      /\ Len(d) > k + 1

C5_Witness ==
    /\ pc[1] = "done"
    /\ doc[1][1].kind = "image"
    /\ IsTitle(doc[1][3])
    /\ Len(doc[1]) = 9

(***************************************************************************)
(* C6 as stated: if the input text file does not exist, the run ends with   *)
(* an uncaught read error and never saves, whether or not the logo exists.  *)
(***************************************************************************)
C6_MissingInputReadError ==
    \A p \in Procs :
        (pc[p] # "off" /\ ~Input(p).exists) =>
            /\ pc[p] \in {"L11", "L14", "L15", "L16", "L19", "L22", "L25", "error"}
            /\ SavesBy(p) = {}
            /\ pc[p] = "error" => err[p] = "FileNotFoundError"

(***************************************************************************)
(* C6 amended: if the input text file does not exist, the run ends with an  *)
(* uncaught error and never saves; the error is the read error unless the   *)
(* logo exists and cannot be embedded, in which case it is the embedding    *)
(* error, raised before the read.                                           *)
(***************************************************************************)
C6_MissingInputFails ==
    \A p \in Procs :
        (pc[p] # "off" /\ ~Input(p).exists) =>
            /\ pc[p] \in {"L11", "L14", "L15", "L16", "L19", "L22", "L25", "error"}
            /\ SavesBy(p) = {}
            /\ pc[p] = "error" =>
                  err[p] = IF Logo(p) = BadImage THEN "ImageError"
                           ELSE "FileNotFoundError"

C6_Witness ==
    /\ pc[1] = "error"
    /\ ~Input(1).exists
    /\ Logo(1) = GoodImage
    /\ err[1] = "FileNotFoundError"
    /\ writeLog = <<>>

C8_OtherOrder ==
    /\ pc[1] = "done"
    /\ pc[2] = "done"
    /\ Len(writeLog) = 2
    /\ writeLog[1].by = 1
    /\ writeLog[2].by = 2
    /\ doc[1] # doc[2]
    /\ Saved.data = doc[2]

(***************************************************************************)
(* C9: within one invocation the document is created empty once, blocks     *)
(* are only ever appended, in program order (logo, title, text blocks),     *)
(* the save happens at most once and only after every block has been        *)
(* appended, and no block is appended after the save.                       *)
(***************************************************************************)
C9_AppendOnlySavedOnce ==
    /\ [](\A p \in Procs :
            LET d == doc[p]
            IN  /\ Cardinality(SavesBy(p)) <= 1
                /\ SavesBy(p) # {} => pc[p] = "done"
                /\ pc[p] \in {"off", "L11", "L14"} => d = <<>>
                /\ \A i, j \in 1..Len(d) :
                      i < j => /\ ~(IsTitle(d[i]) /\ d[j].kind = "image")
                               /\ ~(d[i].kind = "heading" /\ IsTitle(d[j]))
                               /\ ~(d[i].kind = "heading" /\ d[j].kind = "image")
                               /\ ~(IsHeading(d[i], "Enhanced Version:")
                                      /\ IsHeading(d[j], "Original Message:")))
    /\ [][\A p \in Procs :
            /\ \/ doc'[p] = doc[p]
               \/ /\ Len(doc'[p]) = Len(doc[p]) + 1
                  /\ SubSeq(doc'[p], 1, Len(doc[p])) = doc[p]
            /\ pc[p] \in {"L39", "done"} => doc'[p] = doc[p]
            /\ pc[p] = "done" => pc'[p] = "done"]_vars

C9_Witness ==
    /\ pc[1] = "done"
    /\ Len(doc[1]) = 9
    /\ Cardinality(SavesBy(1)) = 1

(***************************************************************************)
(* C10: a run that ends with an error (missing input file, a logo that      *)
(* exists but cannot be embedded, a failure while splitting the text)       *)
(* leaves the file at the output path as it was: the save is the only       *)
(* write and it is the last step.                                           *)
(***************************************************************************)
C10_FailedRunLeavesOutput ==
    /\ [](\A p \in Procs :
            pc[p] = "error" =>
                /\ SavesBy(p) = {}
                /\ err[p] \in {"FileNotFoundError", "ImageError", "ValueError"})
    /\ [][\A p \in Procs :
            (pc'[p] # pc[p] /\ pc'[p] # "done") => fs' = fs]_vars

C10_Witness ==
    /\ pc[1] = "error"
    /\ err[1] = "ValueError"
    /\ Saved = [exists |-> TRUE, data |-> OldDoc]
    /\ writeLog = <<>>

====
